---- MODULE Spec2Model ----
(***************************************************************************)
(* Model of rpi_motion_detection: the detection loop of MotionDetector     *)
(* (src/motion_detector.py), the SIGINT handler, and the part of           *)
(* GoogleDriveService (src/service/google_drive_service.py) the loop       *)
(* calls when a recording is finished.                                     *)
(*                                                                         *)
(* Time is counted in whole seconds (datetime.now() is the variable now,   *)
(* which only moves forward).  Strings are sequences of one-character      *)
(* strings.  A frame is the flat buffer current_frame[:w*h]: a sequence of *)
(* NumPixels unsigned 8-bit samples.                                       *)
(***************************************************************************)
EXTENDS Integers, Sequences, FiniteSets, TLC

\* ------------------------------------------------------------------ bounds
MaxTime == 7
NumPixels == 1
MaxPrompts == 1

\* ------------------------------------------------------- program constants
MAX_TIME_SINCE_LAST_MOTION_DETECTION_SECONDS == 5
\* --min-pixel-diff defaults to 7.2, kept as the fraction 36/5
MinPixelDiffNum == 36
MinPixelDiffDen == 5
\* numpy uint8: every elementwise result is reduced modulo 2^8
Uint8Modulus == 256
\* file.get("name")[0:-5] and the 5 characters of ".h264"
ExtensionLength == 5

\* None, for the two timestamps
None == -1
\* None, for previous_frame
NoFrame == << >>

VARIABLES
    args,             \* the parsed command line (never changes)
    pc,               \* position of the main thread
    prompts,          \* command_line_handler invocations waiting at input()
    exit_status,      \* None while the process runs
    now,              \* the clock datetime.datetime.now() reads
    encoder_running,  \* picam2.start_encoder() / stop_encoder()
    encoding,         \* self.__encoding
    start_time,       \* self.__start_time_of_last_recording
    last_motion,      \* self.__time_of_last_motion_detection
    previous_frame,   \* local of __loop
    current_frame,    \* local of __loop
    mse,              \* local of __loop: [sum, n], the mean sum / n
    file_path,        \* local of __write_recording_to_file
    file_name,        \* local of __write_recording_to_file
    output,           \* self.__encoder.output: [fileoutput, recording]
    local_files,      \* paths present in the local file system
    remote_folders,   \* number of Drive folders named "recordings"
    remote_files,     \* names of the files in the Drive folder
    cmds,             \* history: output.start() / output.stop() calls, in order
    session_log,      \* history: what was done for the current session
    fin_reason,       \* history: which test sent the loop to finalize
    gap               \* history: a frame without motion since the last refresh

vars == << args, pc, prompts, exit_status, now, encoder_running, encoding,
           start_time, last_motion, previous_frame, current_frame, mse,
           file_path, file_name, output, local_files, remote_folders,
           remote_files, cmds, session_log, fin_reason, gap >>

\* ----------------------------------------------------------------- strings
Digit(d) == <<"0", "1", "2", "3", "4", "5", "6", "7", "8", "9">>[d + 1]

\* datetime.isoformat(): the two-digit seconds field stands for the stamp
Isoformat(t) == << Digit((t \div 10) % 10), Digit(t % 10) >>

H264 == << ".", "h", "2", "6", "4" >>

SlashPositions(p) == { i \in 1..Len(p) : p[i] = "/" }

LastSlash(p) ==
    IF SlashPositions(p) = {} THEN 0
    ELSE CHOOSE i \in SlashPositions(p) : \A j \in SlashPositions(p) : j <= i

\* os.path.split(p)[1]
Basename(p) == SubSeq(p, LastSlash(p) + 1, Len(p))

\* ------------------------------------------------------------------ frames
\* the samples the frame source delivers to the loop
PixelValues == {0, 3}
Frames == [1..NumPixels -> PixelValues]

RECURSIVE SumSeq(_)
SumSeq(s) == IF s = << >> THEN 0 ELSE Head(s) + SumSeq(Tail(s))

\* a subtraction that saturates at 0 instead of wrapping
Subtract_Saturating(a, b) ==
    [i \in 1..Len(a) |-> IF a[i] >= b[i] THEN a[i] - b[i] ELSE 0]

\* np.subtract on two uint8 arrays
Subtract(a, b) == [i \in 1..Len(a) |-> (a[i] - b[i]) % Uint8Modulus]

\* np.square on a uint8 array
Square(a) == [i \in 1..Len(a) |-> (a[i] * a[i]) % Uint8Modulus]

\* ndarray.mean(): float64 accumulation, kept as an exact fraction
Mean(a) == [sum |-> SumSeq(a), n |-> Len(a)]

MseOf(cur, prev) == Mean(Square(Subtract(cur, prev)))

\* the threshold test with >= for >
AboveMinPixelDiff_AtThreshold(m) ==
    m.sum * MinPixelDiffDen >= MinPixelDiffNum * m.n

\* mse > self.__min_pixel_diff
AboveMinPixelDiff(m) == m.sum * MinPixelDiffDen > MinPixelDiffNum * m.n

\* ----------------------------------------------------------- configuration
\* argparse.Namespace fields the loop reads; "./r/" and "r" as recording_dir
RecordingDirs == { << ".", "/", "r", "/" >>, << "r" >> }

ArgsSet ==
    [ max_recording_length_seconds : {0, 3},
      drive_upload : BOOLEAN,
      delete_local_recordings_after_upload : BOOLEAN,
      delete_recordings_after_seconds : {0, 4},
      recording_dir : RecordingDirs ]

\* without --drive-upload the two delete options are never read
Args ==
    { a \in ArgsSet :
        ~a.drive_upload =>
            /\ ~a.delete_local_recordings_after_upload
            /\ a.delete_recordings_after_seconds = 0 }

\* -------------------------------------------------------------------- Init
\* MotionDetector.__init__, then signal.signal(SIGINT, command_line_handler)
Init ==
    /\ args \in Args
    /\ pc = "start"
    /\ prompts = 0
    /\ exit_status = None
    /\ now = 0
    /\ encoder_running = FALSE
    /\ encoding = FALSE
    /\ start_time = None
    /\ last_motion = None
    /\ previous_frame = NoFrame
    /\ current_frame = NoFrame
    /\ mse = [sum |-> 0, n |-> 1]
    /\ file_path = << >>
    /\ file_name = << >>
    /\ output = [fileoutput |-> << >>, recording |-> FALSE]
    /\ local_files = {}
    /\ remote_folders \in IF args.drive_upload THEN {0, 1, 2} ELSE {0}
    /\ remote_files = {}
    /\ cmds = << >>
    /\ session_log = << >>
    /\ fin_reason = "none"
    /\ gap = FALSE

\* the main thread runs bytecode only while no handler waits at input()
Running == prompts = 0 /\ pc \notin {"exited", "crashed"}

\* an exception nobody catches ends the process with a traceback
Crash(e) == /\ pc' = "crashed"
            /\ exit_status' = 1
            /\ session_log' = Append(session_log, e)

\* ------------------------------------------------------------ the predicates
\* the cap test with > for >=
IsMaxRecordingLengthExceeded_Strict ==
    /\ args.max_recording_length_seconds > 0
    /\ start_time # None
    /\ now - start_time > args.max_recording_length_seconds

IsMaxRecordingLengthExceeded ==
    /\ args.max_recording_length_seconds > 0
    /\ start_time # None
    /\ now - start_time >= args.max_recording_length_seconds

\* the idle test without its "self.__encoding and"
IsMaxTimeSinceLastMotionDetectionExceeded_NoEncoding ==
    /\ last_motion # None
    /\ now - last_motion > MAX_TIME_SINCE_LAST_MOTION_DETECTION_SECONDS

\* the idle test with >= for >
IsMaxTimeSinceLastMotionDetectionExceeded_AtTimeout ==
    /\ encoding
    /\ last_motion # None
    /\ now - last_motion >= MAX_TIME_SINCE_LAST_MOTION_DETECTION_SECONDS

\* the idle test without the timeout: any frame without motion finalizes
IsMaxTimeSinceLastMotionDetectionExceeded_NoGrace ==
    /\ encoding
    /\ last_motion # None

IsMaxTimeSinceLastMotionDetectionExceeded ==
    /\ encoding
    /\ last_motion # None
    /\ now - last_motion > MAX_TIME_SINCE_LAST_MOTION_DETECTION_SECONDS

\* the path taken from the clock instead of the stored start
GetRecordingFilePath_Now == args.recording_dir \o Isoformat(now) \o H264

GetRecordingFilePath == args.recording_dir \o Isoformat(start_time) \o H264

\* ---------------------------------------------------------------- the loop
\* MotionDetector.start
Start ==
    /\ Running /\ pc = "start"
    /\ encoder_running' = TRUE
    /\ pc' = "capture"
    /\ UNCHANGED << args, prompts, exit_status, now, encoding, start_time,
                    last_motion, previous_frame, current_frame, mse, file_path,
                    file_name, output, local_files, remote_folders,
                    remote_files, cmds, session_log, fin_reason,
                    gap >>

\* lines 128-131 once capture_buffer has returned the frame f
CaptureFrame(f) ==
    /\ Running /\ pc = "capture"
    /\ current_frame' = f
    /\ IF previous_frame # NoFrame
       THEN mse' = MseOf(f, previous_frame) /\ pc' = "branch"
       ELSE mse' = mse /\ pc' = "store"
    /\ UNCHANGED << args, prompts, exit_status, encoder_running, encoding,
                    start_time, last_motion, previous_frame, file_path,
                    file_name, output, local_files, remote_folders,
                    remote_files, cmds, session_log, fin_reason,
                    gap >>

\* capture_buffer, reshape, and the mse of line 131
CaptureBuffer ==
    /\ \E f \in Frames : CaptureFrame(f)
    /\ UNCHANGED now

\* if mse > self.__min_pixel_diff and not self.__is_max_recording_length_exceeded()
IsMotionBranch == AboveMinPixelDiff(mse) /\ ~IsMaxRecordingLengthExceeded

\* the motion branch without its "if not self.__encoding"
MotionBranchTarget_AlwaysStart == "stamp_start"

\* if not self.__encoding: (lines 134-136), then line 137
MotionBranchTarget == IF ~encoding THEN "stamp_start" ELSE "stamp_motion"

Branch ==
    /\ Running /\ pc = "branch"
    /\ pc' = IF IsMotionBranch THEN MotionBranchTarget ELSE "elif"
    /\ UNCHANGED << args, prompts, exit_status, now, encoder_running, encoding,
                    start_time, last_motion, previous_frame, current_frame, mse,
                    file_path, file_name, output, local_files, remote_folders,
                    remote_files, cmds, session_log, fin_reason,
                    gap >>

\* self.__start_time_of_last_recording = datetime.datetime.now()
StampStart ==
    /\ Running /\ pc = "stamp_start"
    /\ start_time' = now
    /\ pc' = "start_recording"
    /\ UNCHANGED << args, prompts, exit_status, now, encoder_running, encoding,
                    last_motion, previous_frame, current_frame, mse, file_path,
                    file_name, output, local_files, remote_folders,
                    remote_files, cmds, session_log, fin_reason,
                    gap >>

\* __start_recording: setting fileoutput opens the file
StartRecording ==
    /\ Running /\ pc = "start_recording"
    /\ output' = [fileoutput |-> GetRecordingFilePath, recording |-> TRUE]
    /\ local_files' = local_files \cup {GetRecordingFilePath}
    /\ encoding' = TRUE
    /\ cmds' = Append(cmds, "start")
    /\ session_log' = << "start" >>
    /\ fin_reason' = "none"
    /\ pc' = "stamp_motion"
    /\ UNCHANGED << args, prompts, exit_status, now, encoder_running,
                    start_time, last_motion, previous_frame, current_frame, mse,
                    file_path, file_name, remote_folders, remote_files,
                    gap >>

\* self.__time_of_last_motion_detection = datetime.datetime.now()
StampMotion ==
    /\ Running /\ pc = "stamp_motion"
    /\ last_motion' = now
    /\ gap' = FALSE
    /\ pc' = "store"
    /\ UNCHANGED << args, prompts, exit_status, now, encoder_running, encoding,
                    start_time, previous_frame, current_frame, mse, file_path,
                    file_name, output, local_files, remote_folders,
                    remote_files, cmds, session_log, fin_reason >>

\* elif self.__is_max_recording_length_exceeded()
ElifMaxLength ==
    /\ Running /\ pc = "elif"
    /\ IF IsMaxRecordingLengthExceeded
       THEN pc' = "write" /\ fin_reason' = "cap"
       ELSE pc' = "else" /\ fin_reason' = fin_reason
    /\ UNCHANGED << args, prompts, exit_status, now, encoder_running, encoding,
                    start_time, last_motion, previous_frame, current_frame, mse,
                    file_path, file_name, output, local_files, remote_folders,
                    remote_files, cmds, session_log,
                    gap >>

\* else: if self.__is_max_time_since_last_motion_detection_exceeded()
ElseIdleTimeout ==
    /\ Running /\ pc = "else"
    /\ IF IsMaxTimeSinceLastMotionDetectionExceeded
       THEN pc' = "write" /\ fin_reason' = "idle" /\ gap' = gap
       ELSE pc' = "store" /\ fin_reason' = fin_reason /\ gap' = encoding
    /\ UNCHANGED << args, prompts, exit_status, now, encoder_running, encoding,
                    start_time, last_motion, previous_frame, current_frame, mse,
                    file_path, file_name, output, local_files, remote_folders,
                    remote_files, cmds, session_log >>

\* line 146 indented under "if previous_frame is not None"
StoreFrame_Indented ==
    /\ Running /\ pc = "store"
    /\ previous_frame' = IF previous_frame # NoFrame THEN current_frame
                         ELSE previous_frame
    /\ pc' = "capture"
    /\ UNCHANGED << args, prompts, exit_status, now, encoder_running, encoding,
                    start_time, last_motion, current_frame, mse, file_path,
                    file_name, output, local_files, remote_folders,
                    remote_files, cmds, session_log, fin_reason,
                    gap >>

\* previous_frame = current_frame
StoreFrame ==
    /\ Running /\ pc = "store"
    /\ previous_frame' = current_frame
    /\ pc' = "capture"
    /\ UNCHANGED << args, prompts, exit_status, now, encoder_running, encoding,
                    start_time, last_motion, current_frame, mse, file_path,
                    file_name, output, local_files, remote_folders,
                    remote_files, cmds, session_log, fin_reason,
                    gap >>

\* ------------------------------------------------------------- finalization
\* __write_recording_to_file, lines 164-166: path, output.stop(), os.path.split
WriteRecordingToFile ==
    /\ Running /\ pc = "write"
    /\ IF start_time = None
       THEN /\ Crash("AttributeError")
            /\ UNCHANGED << file_path, file_name, output, cmds >>
       ELSE /\ file_path' = GetRecordingFilePath
            /\ output' = [output EXCEPT !.recording = FALSE]
            /\ file_name' = Basename(GetRecordingFilePath)
            /\ cmds' = Append(cmds, "stop")
            /\ session_log' = Append(session_log, "stop")
            /\ pc' = "upload_file"
            /\ UNCHANGED exit_status
    /\ UNCHANGED << args, prompts, now, encoder_running, encoding, start_time,
                    last_motion, previous_frame, current_frame, mse,
                    local_files, remote_folders, remote_files, fin_reason,
                    gap >>

\* __upload_file(file_path, file_name): the hand-off, and its test of the service
UploadFile ==
    /\ Running /\ pc = "upload_file"
    /\ session_log' = Append(session_log, "handoff")
    /\ pc' = IF args.drive_upload THEN "upload_video" ELSE "clear"
    /\ UNCHANGED << args, prompts, exit_status, now, encoder_running, encoding,
                    start_time, last_motion, previous_frame, current_frame, mse,
                    file_path, file_name, output, local_files, remote_folders,
                    remote_files, cmds, fin_reason,
                    gap >>

\* the requests of upload_video that can raise HttpError ("none": all succeed)
UploadFailPoints == {"none", "list", "folder_create", "file_create"}

\* upload_video returning None after the HttpError
AfterHttpError_Returns == ""

\* upload_video, lines 122-126: HttpError is caught, file = None, and then
\* file.get("id") raises
AfterHttpError == "AttributeError"

\* __get_or_create_folder taking the first of several folders of that name
UploadVideoOutcome_FirstFolder(fail) ==
    LET folders == IF remote_folders = 0 THEN 1 ELSE remote_folders IN
    IF fail = "list"
    THEN [exc |-> AfterHttpError, folders |-> remote_folders, created |-> FALSE]
    ELSE IF remote_folders = 0 /\ fail = "folder_create"
    THEN [exc |-> AfterHttpError, folders |-> 0, created |-> FALSE]
    ELSE IF file_path \notin local_files
    THEN [exc |-> "FileNotFoundError", folders |-> folders, created |-> FALSE]
    ELSE IF fail = "file_create"
    THEN [exc |-> AfterHttpError, folders |-> folders, created |-> FALSE]
    ELSE [exc |-> "", folders |-> folders, created |-> TRUE]

\* upload_video with __get_or_create_folder: the exception that leaves the call
\* ("" when it returns), the folders afterwards, and whether the file was created
UploadVideoOutcome(fail) ==
    IF fail = "list"
    THEN [exc |-> AfterHttpError, folders |-> remote_folders, created |-> FALSE]
    ELSE IF remote_folders > 1
    THEN [exc |-> "Exception", folders |-> remote_folders, created |-> FALSE]
    ELSE IF remote_folders = 0 /\ fail = "folder_create"
    THEN [exc |-> AfterHttpError, folders |-> 0, created |-> FALSE]
    ELSE IF file_path \notin local_files
    THEN [exc |-> "FileNotFoundError", folders |-> 1, created |-> FALSE]
    ELSE IF fail = "file_create"
    THEN [exc |-> AfterHttpError, folders |-> 1, created |-> FALSE]
    ELSE [exc |-> "", folders |-> 1, created |-> TRUE]

\* self.__google_drive_service.upload_video(file_path=..., file_name=...)
UploadVideo ==
    /\ Running /\ pc = "upload_video"
    /\ \E fail \in UploadFailPoints :
        LET r == UploadVideoOutcome(fail) IN
        /\ remote_folders' = r.folders
        /\ remote_files' = IF r.created THEN remote_files \cup {file_name}
                           ELSE remote_files
        /\ IF r.exc = ""
           THEN /\ session_log' =
                     Append(session_log,
                            IF r.created THEN "upload_ok" ELSE "upload_failed")
                /\ pc' = "delete_recording"
                /\ UNCHANGED exit_status
           ELSE /\ pc' = "crashed"
                /\ exit_status' = 1
                /\ session_log' = session_log \o << "upload_failed", r.exc >>
    /\ UNCHANGED << args, prompts, now, encoder_running, encoding, start_time,
                    last_motion, previous_frame, current_frame, mse, file_path,
                    file_name, output, local_files, cmds, fin_reason,
                    gap >>

\* __delete_recording(file_path)
DeleteRecording ==
    /\ Running /\ pc = "delete_recording"
    /\ IF ~args.delete_local_recordings_after_upload
       THEN /\ pc' = "delete_old"
            /\ UNCHANGED << local_files, session_log, exit_status >>
       ELSE IF file_path \in local_files
       THEN /\ local_files' = local_files \ {file_path}
            /\ session_log' = Append(session_log, "delete")
            /\ pc' = "delete_old"
            /\ UNCHANGED exit_status
       ELSE /\ Crash("FileNotFoundError")
            /\ UNCHANGED local_files
    /\ UNCHANGED << args, prompts, now, encoder_running, encoding, start_time,
                    last_motion, previous_frame, current_frame, mse, file_path,
                    file_name, output, remote_folders, remote_files, cmds,
                    fin_reason,
                    gap >>

\* ----------------------------------------------------------- remote pruning
Digits == { Digit(d) : d \in 0..9 }
DigitValue(c) == CHOOSE d \in 0..9 : Digit(d) = c

\* file.get("name")[0:-5]
Stem(name) == SubSeq(name, 1, Len(name) - ExtensionLength)

\* datetime.fromisoformat accepts s (it raises ValueError otherwise)
IsIsoformat(s) == Len(s) = 2 /\ s[1] \in Digits /\ s[2] \in Digits
FromIsoformat(s) == 10 * DigitValue(s[1]) + DigitValue(s[2])

\* the orders in which files().list() may return the files
Listings(S) ==
    { l \in [1..Cardinality(S) -> S] :
        \A i, j \in 1..Cardinality(S) : i # j => l[i] # l[j] }

\* the for loop with < for <= in the test of line 100
RECURSIVE DeleteFrom_Strict(_, _, _, _)
DeleteFrom_Strict(files, i, delete_before_date, failAt) ==
    IF i > Len(files)
    THEN [deleted |-> {}, exc |-> ""]
    ELSE IF ~IsIsoformat(Stem(files[i]))
    THEN [deleted |-> {}, exc |-> "ValueError"]
    ELSE IF FromIsoformat(Stem(files[i])) < delete_before_date
    THEN IF i = failAt
         THEN [deleted |-> {}, exc |-> "HttpError"]
         ELSE LET r == DeleteFrom_Strict(files, i + 1, delete_before_date,
                                         failAt)
              IN  [deleted |-> r.deleted \cup {files[i]}, exc |-> r.exc]
    ELSE DeleteFrom_Strict(files, i + 1, delete_before_date, failAt)

\* the for loop of delete_all_videos_older_than from position i on; the delete
\* request of position failAt raises HttpError
RECURSIVE DeleteFrom(_, _, _, _)
DeleteFrom(files, i, delete_before_date, failAt) ==
    IF i > Len(files)
    THEN [deleted |-> {}, exc |-> ""]
    ELSE IF ~IsIsoformat(Stem(files[i]))
    THEN [deleted |-> {}, exc |-> "ValueError"]
    ELSE IF FromIsoformat(Stem(files[i])) <= delete_before_date
    THEN IF i = failAt
         THEN [deleted |-> {}, exc |-> "HttpError"]
         ELSE LET r == DeleteFrom(files, i + 1, delete_before_date, failAt)
              IN  [deleted |-> r.deleted \cup {files[i]}, exc |-> r.exc]
    ELSE DeleteFrom(files, i + 1, delete_before_date, failAt)

\* delete_all_videos_older_than, with __get_folder_id
DeleteAllVideosOlderThan(delete_before_date, files, listFails, failAt) ==
    IF listFails
    THEN [deleted |-> {}, exc |-> "HttpError"]
    ELSE IF remote_folders # 1
    THEN [deleted |-> {}, exc |-> "Exception"]
    ELSE DeleteFrom(files, 1, delete_before_date, failAt)

\* __delete_old_online_recordings
DeleteOldOnlineRecordings ==
    /\ Running /\ pc = "delete_old"
    /\ IF args.delete_recordings_after_seconds > 0
       THEN \E files \in Listings(remote_files), listFails \in BOOLEAN,
               failAt \in 0..Cardinality(remote_files) :
            LET r == DeleteAllVideosOlderThan(
                         now - args.delete_recordings_after_seconds,
                         files, listFails, failAt) IN
            /\ remote_files' = remote_files \ r.deleted
            /\ IF r.exc = ""
               THEN /\ session_log' = Append(session_log, "prune")
                    /\ pc' = "clear"
                    /\ UNCHANGED exit_status
               ELSE /\ pc' = "crashed"
                    /\ exit_status' = 1
                    /\ session_log' = session_log \o << "prune", r.exc >>
       ELSE /\ pc' = "clear"
            /\ UNCHANGED << remote_files, session_log, exit_status >>
    /\ UNCHANGED << args, prompts, now, encoder_running, encoding, start_time,
                    last_motion, previous_frame, current_frame, mse, file_path,
                    file_name, output, local_files, remote_folders, cmds,
                    fin_reason,
                    gap >>

\* the finalizing iteration going on to start the next session itself
ClearSession_Restart ==
    /\ Running /\ pc = "clear"
    /\ encoding' = FALSE
    /\ start_time' = None
    /\ file_path' = << >>
    /\ file_name' = << >>
    /\ session_log' = Append(session_log, "clear")
    /\ gap' = FALSE
    /\ pc' = IF AboveMinPixelDiff(mse) THEN "stamp_start" ELSE "store"
    /\ UNCHANGED << args, prompts, exit_status, now, encoder_running,
                    last_motion, previous_frame, current_frame, mse, output,
                    local_files, remote_folders, remote_files, cmds,
                    fin_reason >>

\* __write_recording_to_file without its line 169
ClearSession_KeepStart ==
    /\ Running /\ pc = "clear"
    /\ encoding' = FALSE
    /\ file_path' = << >>
    /\ file_name' = << >>
    /\ session_log' = Append(session_log, "clear")
    /\ gap' = FALSE
    /\ pc' = "store"
    /\ UNCHANGED << args, prompts, exit_status, now, encoder_running,
                    start_time, last_motion, previous_frame, current_frame,
                    mse, output, local_files, remote_folders, remote_files,
                    cmds, fin_reason >>

\* __write_recording_to_file, lines 168-169, and the return
ClearSession ==
    /\ Running /\ pc = "clear"
    /\ encoding' = FALSE
    /\ start_time' = None
    /\ file_path' = << >>
    /\ file_name' = << >>
    /\ session_log' = Append(session_log, "clear")
    /\ gap' = FALSE
    /\ pc' = "store"
    /\ UNCHANGED << args, prompts, exit_status, now, encoder_running,
                    last_motion, previous_frame, current_frame, mse, output,
                    local_files, remote_folders, remote_files, cmds,
                    fin_reason >>

\* ------------------------------------------------------- clock and interrupt
Alive == pc \notin {"exited", "crashed"}

Tick ==
    /\ Alive /\ now < MaxTime
    /\ now' = now + 1
    /\ UNCHANGED << args, pc, prompts, exit_status, encoder_running, encoding,
                    start_time, last_motion, previous_frame, current_frame, mse,
                    file_path, file_name, output, local_files, remote_folders,
                    remote_files, cmds, session_log, fin_reason,
                    gap >>

\* SIGINT: command_line_handler runs on top of whatever the main thread was
\* doing (also on top of a handler waiting at input()) and prompts
Interrupt ==
    /\ Alive /\ prompts < MaxPrompts
    /\ prompts' = prompts + 1
    /\ UNCHANGED << args, pc, exit_status, now, encoder_running, encoding,
                    start_time, last_motion, previous_frame, current_frame, mse,
                    file_path, file_name, output, local_files, remote_folders,
                    remote_files, cmds, session_log, fin_reason,
                    gap >>

\* res != 'y': the handler returns
AnswerOther ==
    /\ Alive /\ prompts > 0
    /\ prompts' = prompts - 1
    /\ UNCHANGED << args, pc, exit_status, now, encoder_running, encoding,
                    start_time, last_motion, previous_frame, current_frame, mse,
                    file_path, file_name, output, local_files, remote_folders,
                    remote_files, cmds, session_log, fin_reason,
                    gap >>

\* stop() without its sys.exit(1)
Stop_NoExit ==
    /\ encoder_running' = FALSE
    /\ exit_status' = exit_status
    /\ pc' = pc

\* MotionDetector.stop
Stop ==
    /\ encoder_running' = FALSE
    /\ exit_status' = 1
    /\ pc' = "exited"

\* a stop() that also stops the output of the running session
AnswerYes_Finalizes ==
    /\ Alive /\ prompts > 0
    /\ Stop
    /\ prompts' = 0
    /\ output' = [output EXCEPT !.recording = FALSE]
    /\ cmds' = IF output.recording THEN Append(cmds, "stop") ELSE cmds
    /\ UNCHANGED << args, now, encoding, start_time, last_motion,
                    previous_frame, current_frame, mse, file_path, file_name,
                    local_files, remote_folders, remote_files,
                    session_log, fin_reason,
                    gap >>

\* res == 'y': motion_detector.stop(); SystemExit unwinds every frame
AnswerYes ==
    /\ Alive /\ prompts > 0
    /\ Stop
    /\ prompts' = 0
    /\ UNCHANGED << args, now, encoding, start_time, last_motion,
                    previous_frame, current_frame, mse, file_path, file_name,
                    output, local_files, remote_folders, remote_files, cmds,
                    session_log, fin_reason,
                    gap >>

Next ==
    \/ Start
    \/ CaptureBuffer
    \/ Branch
    \/ StampStart
    \/ StartRecording
    \/ StampMotion
    \/ ElifMaxLength
    \/ ElseIdleTimeout
    \/ StoreFrame
    \/ WriteRecordingToFile
    \/ UploadFile
    \/ UploadVideo
    \/ DeleteRecording
    \/ DeleteOldOnlineRecordings
    \/ ClearSession
    \/ Tick
    \/ Interrupt
    \/ AnswerOther
    \/ AnswerYes

Spec == Init /\ [][Next]_vars

\* ------------------------------------------- the remote pruning, by itself
\* names the Drive folder may hold from earlier runs: two that parse, and one
\* written with a --recording-dir that does not end in a slash
PruneFolderNames ==
    { Isoformat(0) \o H264, Isoformat(2) \o H264,
      << "r" >> \o Isoformat(1) \o H264 }

\* __upload_file at line 234: a capped session has been stopped and uploaded
InitPrune ==
    /\ args \in { a \in Args : /\ a.drive_upload
                               /\ ~a.delete_local_recordings_after_upload
                               /\ a.max_recording_length_seconds > 0 }
    /\ pc = "delete_old"
    /\ prompts = 0
    /\ exit_status = None
    /\ now \in 0..MaxTime
    /\ encoder_running = TRUE
    /\ encoding = TRUE
    /\ start_time \in { t \in 0..now :
                          now - t >= args.max_recording_length_seconds }
    /\ last_motion \in start_time..now
    /\ previous_frame \in Frames
    /\ current_frame \in Frames
    /\ mse = MseOf(current_frame, previous_frame)
    /\ file_path = GetRecordingFilePath
    /\ file_name = Basename(file_path)
    /\ output = [fileoutput |-> file_path, recording |-> FALSE]
    /\ local_files = {file_path}
    /\ remote_folders = 1
    /\ \E S \in SUBSET PruneFolderNames : remote_files = S \cup {file_name}
    /\ cmds = << "start", "stop" >>
    /\ session_log = << "start", "stop", "handoff", "upload_ok" >>
    /\ fin_reason = "cap"
    /\ gap = FALSE

NextPrune == DeleteOldOnlineRecordings

SpecPrune == InitPrune /\ [][NextPrune]_vars

\* ----------------------------------------------- the ten-frame scenario
\* ten two-sample frames whose successive mse values are -, 10, 10, 10, 2, 2,
\* 2, 2, 2, 2
ScenarioFrames ==
    << << 0, 0 >>, << 4, 2 >>, << 0, 0 >>, << 4, 2 >>, << 2, 2 >>,
       << 0, 2 >>, << 2, 2 >>, << 0, 2 >>, << 2, 2 >>, << 0, 2 >> >>

\* no cap, no upload: --recording-dir ./r/ and the defaults
InitScenario ==
    /\ Init
    /\ args.max_recording_length_seconds = 0
    /\ ~args.drive_upload
    /\ ~args.delete_local_recordings_after_upload
    /\ args.delete_recordings_after_seconds = 0
    /\ args.recording_dir = << ".", "/", "r", "/" >>

\* capture_buffer returns frame k at second k - 1: the first at once, every
\* later one a second after the one before
ScenarioCapture ==
    LET k == IF previous_frame = NoFrame THEN 1 ELSE now + 2 IN
    /\ k <= Len(ScenarioFrames)
    /\ CaptureFrame(ScenarioFrames[k])
    /\ now' = k - 1

NextScenario ==
    \/ Start
    \/ ScenarioCapture
    \/ Branch
    \/ StampStart
    \/ StartRecording
    \/ StampMotion
    \/ ElifMaxLength
    \/ ElseIdleTimeout
    \/ StoreFrame
    \/ WriteRecordingToFile
    \/ UploadFile
    \/ ClearSession
    \/ Interrupt
    \/ AnswerOther
    \/ AnswerYes

SpecScenario == InitScenario /\ [][NextScenario]_vars

\* ------------------------------------------- frames around the threshold
\* five-sample frames whose mse values are 0, 36/5 (the default threshold
\* itself) and 72/5
ThresholdFrames ==
    { << 0, 0, 0, 0, 0 >>, << 6, 0, 0, 0, 0 >>, << 6, 6, 0, 0, 0 >> }

\* no upload: --recording-dir ./r/, with and without a cap
InitThreshold ==
    /\ Init
    /\ ~args.drive_upload
    /\ ~args.delete_local_recordings_after_upload
    /\ args.delete_recordings_after_seconds = 0
    /\ args.recording_dir = << ".", "/", "r", "/" >>

\* capture_buffer, reshape, and the mse of line 131
ThresholdCapture ==
    /\ \E f \in ThresholdFrames : CaptureFrame(f)
    /\ UNCHANGED now

NextThreshold ==
    \/ Start
    \/ ThresholdCapture
    \/ Branch
    \/ StampStart
    \/ StartRecording
    \/ StampMotion
    \/ ElifMaxLength
    \/ ElseIdleTimeout
    \/ StoreFrame
    \/ WriteRecordingToFile
    \/ UploadFile
    \/ ClearSession
    \/ Tick
    \/ Interrupt
    \/ AnswerOther
    \/ AnswerYes

SpecThreshold == InitThreshold /\ [][NextThreshold]_vars

\* ------------------------------------------------------- the diff, by itself
\* samples around the points where uint8 arithmetic wraps
DiffPixelValues == {0, 1, 3, 15, 16, 17, 240, 255}
MaxDiffPixels == 2
DiffFrames(n) == [1..n -> DiffPixelValues]

InitDiff ==
    /\ args \in { a \in Args : ~a.drive_upload /\ a.max_recording_length_seconds = 0
                               /\ Len(a.recording_dir) = 1 }
    /\ pc = "diff"
    /\ \E n \in 1..MaxDiffPixels :
         /\ previous_frame \in DiffFrames(n)
         /\ current_frame \in DiffFrames(n)
    /\ prompts = 0
    /\ exit_status = None
    /\ now = 0
    /\ encoder_running = TRUE
    /\ encoding = FALSE
    /\ start_time = None
    /\ last_motion = None
    /\ mse = [sum |-> 0, n |-> 1]
    /\ file_path = << >>
    /\ file_name = << >>
    /\ output = [fileoutput |-> << >>, recording |-> FALSE]
    /\ local_files = {}
    /\ remote_folders = 0
    /\ remote_files = {}
    /\ cmds = << >>
    /\ session_log = << >>
    /\ fin_reason = "none"
    /\ gap = FALSE

\* line 131 on one pair of frames
ApplyDiff ==
    /\ pc = "diff"
    /\ mse' = MseOf(current_frame, previous_frame)
    /\ pc' = "diff_done"
    /\ UNCHANGED << args, prompts, exit_status, now, encoder_running, encoding,
                    start_time, last_motion, previous_frame, current_frame,
                    file_path, file_name, output, local_files, remote_folders,
                    remote_files, cmds, session_log, fin_reason, gap >>

NextDiff == ApplyDiff

SpecDiff == InitDiff /\ [][NextDiff]_vars

\* ================================================================== claims
Positions(log, e) == { i \in 1..Len(log) : log[i] = e }
Occurs(log, e) == Positions(log, e) # {}
Precedes(log, a, b) ==
    \A j \in Positions(log, b) : \E i \in Positions(log, a) : i < j

\* a step of the main thread (not the clock, not the interrupt handler)
LoopStep == prompts = 0 /\ prompts' = 0 /\ pc' # pc

\* C1: at most one session is active: output.start() is only issued while
\* no session is active and output.stop() only while one is, so the two
\* commands alternate strictly, beginning with start.
C1_SingleSession ==
    /\ \A i \in 1..Len(cmds) :
         cmds[i] = IF i % 2 = 1 THEN "start" ELSE "stop"
    /\ output.recording <=> (Len(cmds) % 2 = 1)
    /\ (pc = "start_recording" => ~encoding /\ ~output.recording)
    /\ (pc = "write" => encoding /\ output.recording /\ start_time # None)

C1_Witness == cmds = << "start", "stop", "start" >> /\ encoding

\* C2: a failure of the upload hand-off does not reach the detection loop:
\* after an upload that failed the process is still running its loop.
C2_UploadFailureContained ==
    Occurs(session_log, "upload_failed") => pc # "crashed"

\* C3: with a cap > 0, a frame above the threshold in an active session takes
\* the motion branch while now - start < cap, and from now - start >= cap on
\* it is sent to finalize, by the cap; nothing on the way to finalize and
\* through it writes the last-motion timestamp.
C3_CapFinalize ==
    [][ /\ ( /\ LoopStep /\ pc = "branch" /\ encoding
             /\ AboveMinPixelDiff(mse)
             /\ args.max_recording_length_seconds > 0
             => IF now - start_time >= args.max_recording_length_seconds
                THEN pc' = "elif" /\ last_motion' = last_motion
                ELSE pc' = "stamp_motion" )
        /\ ( /\ LoopStep /\ pc = "elif" /\ AboveMinPixelDiff(mse)
             => /\ pc' = "write" /\ fin_reason' = "cap"
                /\ args.max_recording_length_seconds > 0
                /\ now - start_time >= args.max_recording_length_seconds )
        /\ ( pc \in {"elif", "write", "upload_file", "upload_video",
                     "delete_recording", "delete_old", "clear"}
             => last_motion' = last_motion )
      ]_vars

C3_Witness ==
    /\ pc = "write" /\ fin_reason = "cap" /\ AboveMinPixelDiff(mse)
    /\ now - start_time = args.max_recording_length_seconds
    /\ last_motion < now

\* C4: in an active session below its cap, a frame at or below the threshold
\* reaches the idle test, which finalizes exactly when
\* now - last_motion > 5 (not at 5).
C4_IdleTimeout ==
    [][ /\ ( /\ LoopStep /\ pc = "branch" /\ ~AboveMinPixelDiff(mse)
             => pc' = "elif" )
        /\ ( /\ LoopStep /\ pc = "elif" /\ encoding
             /\ ~( /\ args.max_recording_length_seconds > 0
                   /\ now - start_time >= args.max_recording_length_seconds )
             => pc' = "else" )
        /\ ( /\ LoopStep /\ pc = "else" /\ encoding
             => IF now - last_motion > 5
                THEN pc' = "write" /\ fin_reason' = "idle"
                ELSE pc' = "store" /\ UNCHANGED << encoding, start_time, cmds >> )
      ]_vars

C4_Witness ==
    /\ pc = "write" /\ fin_reason = "idle" /\ ~AboveMinPixelDiff(mse)
    /\ now - last_motion = 6

\* C5: grace window: in an active session below its cap, a frame without
\* motion within 5 s of the last motion leaves the session as it is, and a
\* frame with motion that follows within those 5 s takes the refresh branch:
\* no start, no stop, same start timestamp and path, last-motion timestamp
\* set to the clock of the refresh.
C5_GraceWindow ==
    [][ /\ ( /\ LoopStep /\ pc = "else" /\ encoding
             /\ now - last_motion <= 5
             => /\ pc' = "store" /\ gap'
                /\ UNCHANGED << encoding, start_time, last_motion, output,
                                cmds >> )
        /\ ( /\ LoopStep /\ pc = "branch" /\ encoding /\ gap
             /\ AboveMinPixelDiff(mse)
             /\ now - last_motion <= 5
             /\ ~( /\ args.max_recording_length_seconds > 0
                   /\ now - start_time >= args.max_recording_length_seconds )
             => /\ pc' = "stamp_motion"
                /\ UNCHANGED << encoding, start_time, last_motion, output,
                                cmds, gap >> )
        /\ ( /\ LoopStep /\ pc = "stamp_motion" /\ gap
             => /\ pc' = "store" /\ last_motion' = now
                /\ UNCHANGED << encoding, start_time, output, cmds >> )
      ]_vars

C5_Witness ==
    /\ pc = "stamp_motion" /\ gap /\ encoding /\ output.recording
    /\ now - last_motion = 5

\* C6: under sustained motion the first frame above the threshold starts the
\* session and every later one, with the cap off or not reached, only
\* refreshes it: on such frames the only start is the one of an idle
\* detector, the only stop and the only reset of the start timestamp are the
\* cap's, and with a cap of 0 the cap never finalizes.
C6_SustainedMotion ==
    [][ /\ ( /\ LoopStep /\ pc = "branch" /\ AboveMinPixelDiff(mse)
             /\ ~encoding
             => pc' = "stamp_start" /\ start_time = None )
        /\ ( /\ LoopStep /\ pc = "branch" /\ AboveMinPixelDiff(mse)
             /\ encoding
             /\ ~( /\ args.max_recording_length_seconds > 0
                   /\ now - start_time >= args.max_recording_length_seconds )
             => pc' = "stamp_motion" )
        /\ ( AboveMinPixelDiff(mse) /\ cmds' # cmds
             => \/ /\ cmds' = Append(cmds, "start")
                   /\ ~encoding /\ pc = "start_recording"
                \/ /\ cmds' = Append(cmds, "stop")
                   /\ fin_reason = "cap"
                   /\ args.max_recording_length_seconds > 0
                   /\ now - start_time >= args.max_recording_length_seconds )
        /\ ( AboveMinPixelDiff(mse) /\ start_time' # start_time
             => \/ ~encoding /\ start_time = None /\ start_time' = now
                \/ /\ start_time' = None /\ fin_reason = "cap"
                   /\ args.max_recording_length_seconds > 0 )
        /\ ( args.max_recording_length_seconds = 0 => fin_reason' # "cap" )
      ]_vars

C6_Witness ==
    /\ args.max_recording_length_seconds = 0
    /\ pc = "stamp_motion" /\ encoding /\ ~gap
    /\ cmds = << "start" >>
    /\ last_motion > start_time
    /\ now - start_time > 5

\* C7: every finalize makes the hand-off __upload_file(file_path, file_name)
\* exactly once, after output.stop() and before the session is cleared; its
\* file_path is the path the sink was given at the start of the session
\* (recording_dir + ISO start timestamp + ".h264") and its file_name that
\* path's base name; there is no hand-off without a finalize.
C7_HandOff ==
    /\ Cardinality(Positions(session_log, "handoff")) <= 1
    /\ Precedes(session_log, "start", "stop")
    /\ Precedes(session_log, "stop", "handoff")
    /\ Precedes(session_log, "handoff", "clear")
    /\ (Occurs(session_log, "handoff") => fin_reason \in {"cap", "idle"})
    /\ ( pc = "upload_file"
         \/ (Occurs(session_log, "handoff") /\ ~Occurs(session_log, "clear"))
         => /\ ~output.recording
            /\ file_path = output.fileoutput
            /\ file_path = args.recording_dir \o Isoformat(start_time) \o H264
            /\ Len(file_name) <= Len(file_path)
            /\ file_name = SubSeq(file_path, Len(file_path) - Len(file_name) + 1,
                                  Len(file_path))
            /\ \A i \in 1..Len(file_name) : file_name[i] # "/"
            /\ ( Len(file_name) < Len(file_path)
                 => file_path[Len(file_path) - Len(file_name)] = "/" ) )

C7_Witness ==
    /\ session_log # << >>
    /\ session_log[Len(session_log)] = "clear"
    /\ Occurs(session_log, "upload_ok")
    /\ fin_reason = "idle"

\* the whole frame difference, in unbounded integers
TrueMse(cur, prev) ==
    [ sum |-> SumSeq([i \in 1..Len(cur) |->
                         (cur[i] - prev[i]) * (cur[i] - prev[i])]),
      n |-> Len(cur) ]

\* C8: the motion score is the true mean of (current - previous)^2 over all
\* pixels: neither the subtraction nor the squaring is reduced modulo 2^8.
C8_NoWrapAround ==
    pc = "diff_done" => mse = TrueMse(current_frame, previous_frame)

Before(log, a, b) ==
    \A i \in Positions(log, a), j \in Positions(log, b) : i < j

UploadEvents == {"upload_ok", "upload_failed", "delete", "prune"}

\* C9: the local delete and the remote pruning happen only after upload_video
\* has returned for a file it created, in the order upload, delete, prune;
\* after a failed upload the local file is still there and nothing is
\* pruned; without --drive-upload none of the three happens.
C9_DeleteAndPruneAfterUpload ==
    /\ Precedes(session_log, "upload_ok", "delete")
    /\ Precedes(session_log, "upload_ok", "prune")
    /\ Before(session_log, "delete", "prune")
    /\ Precedes(session_log, "handoff", "upload_ok")
    /\ ( Occurs(session_log, "upload_failed")
         => /\ ~Occurs(session_log, "delete")
            /\ ~Occurs(session_log, "prune")
            /\ file_path \in local_files )
    /\ ( /\ Occurs(session_log, "stop") /\ ~Occurs(session_log, "clear")
         /\ file_path \notin local_files
         => Occurs(session_log, "delete") )
    /\ ( ~args.drive_upload
         => /\ \A e \in UploadEvents : ~Occurs(session_log, e)
            /\ remote_files = {}
            /\ (output.fileoutput # << >> => output.fileoutput \in local_files) )

C9_Witness ==
    /\ Occurs(session_log, "upload_ok")
    /\ Occurs(session_log, "delete")
    /\ Occurs(session_log, "prune")
    /\ pc = "clear"
    /\ file_path \notin local_files
    /\ file_name \in remote_files

\* the state of the loop and of everything it commands
MainThread ==
    << pc, exit_status, encoder_running, encoding, start_time, last_motion,
       previous_frame, current_frame, mse, file_path, file_name, output,
       local_files, remote_folders, remote_files, cmds, session_log,
       fin_reason, gap >>

\* C10: an interrupt can arrive at any point of the loop; answered 'y', the
\* encoder is stopped and the process exits with status 1, and nothing runs
\* afterwards; answered otherwise, no command is issued, no field changes,
\* and the loop is where it was.
C10_Interrupt ==
    [][ /\ ( encoder_running /\ ~encoder_running'
             => /\ prompts > 0
                /\ pc' = "exited" /\ exit_status' = 1
                /\ UNCHANGED << encoding, start_time, last_motion, output,
                                cmds, session_log, local_files, remote_files >> )
        /\ ( prompts > 0 /\ pc' # pc
             => /\ pc' = "exited" /\ ~encoder_running' /\ exit_status' = 1 )
        /\ ( prompts > 0 /\ pc' = pc => UNCHANGED MainThread )
        /\ ( pc = "exited" => UNCHANGED vars )
        /\ ( pc \notin {"exited", "crashed"} /\ prompts = 0
             => ENABLED Interrupt )
      ]_vars

C10_Witness ==
    /\ pc = "exited" /\ exit_status = 1 /\ ~encoder_running
    /\ prompts = 0
    /\ session_log = << "start", "stop", "handoff" >>

\* C11: remote pruning is best-effort per file: when one listed file cannot be
\* evaluated (its name does not parse), every other listed file whose stamp is
\* at or before the cutoff is still deleted.
C11_PruningBestEffort ==
    [][ ( /\ pc = "delete_old" /\ pc' = "crashed"
          /\ session_log'[Len(session_log')] = "ValueError" )
        => \A f \in remote_files :
             ( /\ IsIsoformat(Stem(f))
               /\ FromIsoformat(Stem(f))
                    <= now - args.delete_recordings_after_seconds )
             => f \notin remote_files'
      ]_vars

\* C12: the diff of two frames does not depend on their order, and the diff of
\* a frame with itself is 0, which is above no threshold >= 0.
C12_DiffSymmetric ==
    pc = "diff_done" =>
        /\ mse = MseOf(previous_frame, current_frame)
        /\ ( current_frame = previous_frame
             => mse.sum = 0 /\ ~AboveMinPixelDiff(mse) )

C12_Witness ==
    /\ pc = "diff_done"
    /\ mse.sum > 0
    /\ \E i \in 1..Len(current_frame) : current_frame[i] < previous_frame[i]
    /\ \E i \in 1..Len(current_frame) : current_frame[i] > previous_frame[i]

\* C13: an upload that finds more than one folder of the name ends in an
\* exception that leaves upload_video (the only other way out is the failed
\* folder listing), with no file and no folder created; an upload never returns
\* with more than one folder; an upload that succeeds leaves exactly one
\* folder, the one found or the one it created, and the file in it.
C13_FolderResolution ==
    [][ ( pc = "upload_video" /\ pc' # pc /\ prompts = 0 /\ prompts' = 0 ) =>
        LET last == session_log'[Len(session_log')] IN
        /\ remote_folders > 1 =>
             /\ pc' = "crashed"
             /\ last \in {"Exception", "AttributeError"}
             /\ remote_files' = remote_files
             /\ remote_folders' = remote_folders
        /\ last = "Exception" => remote_folders > 1
        /\ pc' = "delete_recording" =>
             /\ remote_folders <= 1
             /\ remote_folders' = 1
             /\ last = "upload_ok"
             /\ remote_files' = remote_files \cup {file_name}
      ]_vars

C13_Witness ==
    /\ pc = "crashed"
    /\ remote_folders > 1
    /\ session_log =
         << "start", "stop", "handoff", "upload_failed", "Exception" >>
    /\ remote_files = {}

\* C14 as stated: in the ten-frame scenario (frame k pulled at second k - 1)
\* the session opens at frame 2, is open after the first below-threshold frame
\* (frame 5), and is finalized by the end of the iteration of frame 9.
C14_ScenarioFrame9 ==
    pc = "store" =>
        /\ ( now = 0 => ~encoding /\ cmds = << >> )
        /\ ( now = 1 => encoding /\ start_time = 1 /\ cmds = << "start" >> )
        /\ ( now = 4 => encoding /\ cmds = << "start" >> )
        /\ ( now = 8 => ~encoding /\ cmds = << "start", "stop" >> )

\* C14, amended: the session opens at frame 2, is still open after each of the
\* frames 5 to 9 (at frame 9 the 5 seconds since the last motion do not exceed
\* the timeout), and is finalized by the idle test in the iteration of frame 10.
C14_ScenarioFrame10 ==
    pc = "store" =>
        /\ ( now = 0 => ~encoding /\ cmds = << >> )
        /\ ( now = 1 => encoding /\ start_time = 1 /\ cmds = << "start" >> )
        /\ ( now \in 2..8 =>
               /\ encoding /\ start_time = 1
               /\ last_motion = ( IF now < 3 THEN now ELSE 3 )
               /\ cmds = << "start" >> )
        /\ ( now = 9 =>
               /\ ~encoding /\ cmds = << "start", "stop" >>
               /\ fin_reason = "idle"
               /\ session_log = << "start", "stop", "handoff", "clear" >> )

C14_Witness ==
    /\ pc = "store" /\ now = 9
    /\ current_frame = ScenarioFrames[10]
    /\ ~encoding
    /\ cmds = << "start", "stop" >>

C16_FirstFrameAndStore ==
    [][ LoopStep =>
        /\ ( pc = "capture" /\ previous_frame = NoFrame ) =>
             /\ pc' = "store"
             /\ UNCHANGED << mse, encoding, start_time, last_motion, output,
                             cmds, session_log, local_files, remote_files >>
        /\ ( pc = "capture" /\ previous_frame # NoFrame ) =>
             /\ pc' = "branch"
             /\ previous_frame = current_frame
             /\ mse' = MseOf(current_frame', current_frame)
        /\ pc = "store" => previous_frame' = current_frame /\ pc' = "capture"
        /\ pc # "store" => previous_frame' = previous_frame
        /\ pc # "capture" => current_frame' = current_frame
        /\ pc \in {"stamp_motion", "clear"} => pc' = "store"
        /\ pc = "else" => pc' \in {"store", "write"}
        /\ pc = "elif" => pc' \in {"else", "write"}
      ]_vars

\* a frame is compared in the iteration after one that finalized a session
C16_Witness ==
    /\ pc = "branch"
    /\ previous_frame # NoFrame /\ current_frame # previous_frame
    /\ ~encoding
    /\ session_log # << >> /\ session_log[Len(session_log)] = "clear"

\* C17: at every frame pull the encoding flag is true exactly when the start
\* stamp is set, and then the last-motion stamp is set and not before the start
\* stamp; so the idle test never finalizes a session on a last-motion stamp
\* older than the session.
C17_SessionFields ==
    /\ pc = "capture" =>
         /\ encoding <=> start_time # None
         /\ encoding => last_motion # None /\ last_motion >= start_time
    /\ ( pc = "write" /\ fin_reason = "idle" ) =>
         /\ encoding /\ start_time # None
         /\ last_motion # None /\ last_motion >= start_time

\* a second session at a frame pull, its last-motion stamp refreshed
C17_Witness ==
    /\ pc = "capture"
    /\ encoding /\ Len(cmds) = 3
    /\ last_motion > start_time

\* C18: while no session is active, the iteration of a frame whose diff is at
\* or below the threshold goes through the elif and the else to the store
\* without a sink or upload command and without a change of the encoding flag
\* or the start stamp; a session is started only on a diff strictly above the
\* threshold.
C18_IdleBelowThreshold ==
    [][ LoopStep =>
        LET above == mse.sum * MinPixelDiffDen > MinPixelDiffNum * mse.n IN
        /\ ( pc \in {"branch", "elif", "else"} /\ ~encoding /\ ~above ) =>
             /\ pc' = CASE pc = "branch" -> "elif"
                        [] pc = "elif" -> "else"
                        [] pc = "else" -> "store"
             /\ UNCHANGED << encoding, start_time, last_motion, output, cmds,
                             session_log, file_path, file_name, local_files,
                             remote_files >>
        /\ ( pc' = "stamp_start" \/ start_time' \notin {start_time, None}
             \/ ( encoding' /\ ~encoding ) ) => above
      ]_vars

\* an idle iteration whose diff is exactly the threshold reaches the store
C18_Witness ==
    /\ pc = "store"
    /\ previous_frame # NoFrame
    /\ mse.sum * MinPixelDiffDen = MinPixelDiffNum * mse.n
    /\ ~encoding /\ start_time = None
    /\ cmds = << >>

\* C19: the iteration that finalizes a session goes from the clearing of the
\* session straight to the store, and the store to the next pull, with no
\* start in between; the next frame above the threshold then starts a new
\* session with the clock reading of that iteration as its start stamp; a
\* start is only issued when every earlier session has had its stop, its
\* hand-off and its clearing, so sessions never overlap.
C19_NoRestartInFinalizingIteration ==
    [][ LoopStep =>
        /\ pc = "clear" =>
             /\ pc' = "store"
             /\ ~encoding' /\ start_time' = None /\ ~output'.recording
             /\ cmds' = cmds
        /\ ( pc = "store" /\ ~encoding ) =>
             /\ pc' = "capture"
             /\ UNCHANGED << encoding, start_time, output, cmds >>
        /\ ( pc = "branch" /\ ~encoding /\ AboveMinPixelDiff(mse) ) =>
             pc' = "stamp_start"
        /\ pc = "stamp_start" =>
             /\ start_time' = now /\ pc' = "start_recording"
             /\ last_motion # None => last_motion <= now
        /\ pc = "start_recording" =>
             /\ ~encoding /\ ~output.recording
             /\ Len(cmds) % 2 = 0
             /\ session_log # << >> =>
                  /\ session_log[Len(session_log)] = "clear"
                  /\ \A e \in {"start", "stop", "handoff", "clear"} :
                       Cardinality(Positions(session_log, e)) = 1
             /\ cmds' = Append(cmds, "start")
             /\ output'.fileoutput = GetRecordingFilePath
      ]_vars

\* after a finalization by the cap, the next frame is above the threshold and
\* the start of a new session has been stamped
C19_Witness ==
    /\ pc = "start_recording"
    /\ fin_reason = "cap"
    /\ cmds = << "start", "stop" >>
    /\ session_log # << >> /\ session_log[Len(session_log)] = "clear"
    /\ start_time = now
    /\ AboveMinPixelDiff(mse)

\* C20: the confirmed interrupt ends the process without finalizing: the step
\* to the exit stops the encoder and nothing else, so a session that was
\* recording is left with its output never stopped and its file never handed
\* off, and nothing happens after the exit.
C20_InterruptDoesNotFinalize ==
    [][ /\ ( pc' = "exited" /\ pc # "exited" ) =>
             /\ ~encoder_running'
             /\ UNCHANGED << output, cmds, session_log, encoding, start_time,
                             last_motion, local_files, remote_files >>
             /\ ( encoding /\ output.recording ) =>
                  /\ output'.recording
                  /\ session_log' = << "start" >>
                  /\ Len(cmds') % 2 = 1
        /\ pc = "exited" =>
             UNCHANGED << output, cmds, session_log, local_files,
                          remote_files >>
      ]_vars

C20_Witness ==
    /\ pc = "exited" /\ ~encoder_running
    /\ encoding /\ start_time # None
    /\ output.recording
    /\ cmds = << "start" >>
    /\ session_log = << "start" >>

====
